---- MODULE Spec2Model ----
(***************************************************************************)
(* EmailNewsSummarizer: token-budget batching, retrying completion calls,  *)
(* the per-record / per-batch / rollup pipeline, link extraction and       *)
(* output formatting.                                                      *)
(*                                                                         *)
(* A Python str is modelled as a sequence of tokens: a token is a word     *)
(* character run ("a", "bb", ...), the whitespace token SP, or one of the  *)
(* pieces the link heuristic looks at ("http", "s", "://").                *)
(***************************************************************************)
EXTENDS Integers, Sequences, FiniteSets, TLC

\* ---------------------------------------------------------------- bounds
MaxLen == 6        \* tokens in the text handed to split_email_by_tokens
MaxBudget == 4     \* largest max_tokens / batch_size tried
MaxSummaries == 4  \* summaries handed to the fixed-size batcher
MaxLinkLen == 7    \* tokens in a completion handed to the link heuristic
MaxEmails == 6     \* messages the mailbox returns
MaxCfgRetries == 3 \* largest MAX_RETRIES a config.yaml sets

\* ------------------------------------------------------- program constants
TOKEN_LIMIT == 100000
MAX_RETRIES == 10
DELAY == 20

SP == " "
NL == "\n"
Words == {"a", "bb", "ccc"}

\* ---------------------------------------------------------------- strings
\* Python's str.isspace() on one token (also the regex class \s)
IsSpace(tok) == tok \in {SP, NL}

RECURSIVE StripLeft(_)
StripLeft(s) ==
    IF s # <<>> /\ IsSpace(Head(s)) THEN StripLeft(Tail(s)) ELSE s

RECURSIVE StripRight(_)
StripRight(s) ==
    IF s # <<>> /\ IsSpace(s[Len(s)]) THEN StripRight(SubSeq(s, 1, Len(s) - 1)) ELSE s

\* str.strip()
Strip(s) == StripLeft(StripRight(s))

\* A text whose words are one token each: no two word tokens are adjacent.
WordsApart(s) == \A i \in 1..(Len(s) - 1) : IsSpace(s[i]) \/ IsSpace(s[i + 1])

\* str.split() of such a text: its non-whitespace tokens, in order
RECURSIVE SplitFrom(_, _, _)
SplitFrom(s, i, acc) ==
    IF i > Len(s) THEN acc
    ELSE IF IsSpace(s[i]) THEN SplitFrom(s, i + 1, acc)
    ELSE SplitFrom(s, i + 1, Append(acc, s[i]))

PySplit(s) == SplitFrom(s, 1, <<>>)

\* ' '.join(words) for a list of one-token words
RECURSIVE JoinWords(_)
JoinWords(parts) ==
    IF parts = <<>> THEN <<>>
    ELSE IF Len(parts) = 1 THEN <<Head(parts)>>
    ELSE <<Head(parts), SP>> \o JoinWords(Tail(parts))

\* sep.join(parts) for a list of strings
RECURSIVE JoinStrings(_, _)
JoinStrings(sep, parts) ==
    IF parts = <<>> THEN <<>>
    ELSE IF Len(parts) = 1 THEN Head(parts)
    ELSE Head(parts) \o sep \o JoinStrings(sep, Tail(parts))

\* list[i:j] with 0-based i, j >= 0 (a Python slice, clipped to the list)
Slice(l, i, j) ==
    LET hi == IF j > Len(l) THEN Len(l) ELSE j
    IN  IF i >= hi THEN <<>> ELSE SubSeq(l, i + 1, hi)

\* --------------------------------------------------------------- tokenizer
\* The tokenizer is an external library: a text costs the sum of what its
\* tokens cost, whitespace being absorbed into the neighbouring word.
TokenCost(tok) ==
    CASE tok = "a" -> 1
      [] tok = "bb" -> 2
      [] tok = "ccc" -> 3
      [] tok = "huge" -> 100001
      [] OTHER -> 0

RECURSIVE count_tokens(_)
count_tokens(text) ==
    IF text = <<>> THEN 0 ELSE TokenCost(Head(text)) + count_tokens(Tail(text))

\* ------------------------------------------------- split_email_by_tokens
\* The loop's locals before the first word.
SplitStart == [current_chunk |-> <<>>, chunks |-> <<>>, current_length |-> 0]

\* SplitStep gone wrong: the overflowing word is not carried into the new chunk.
SplitStepDropsWord(st, word, max_tokens) ==
    LET word_length == count_tokens(<<word, SP>>)
    IN  IF st.current_length + word_length > max_tokens
        THEN [current_chunk |-> <<>>,
              chunks |-> Append(st.chunks, JoinWords(st.current_chunk)),
              current_length |-> 0]
        ELSE [current_chunk |-> Append(st.current_chunk, word),
              chunks |-> st.chunks,
              current_length |-> st.current_length + word_length]

\* SplitStep gone wrong: the running length is reset to 0 instead of the word's length.
SplitStepResetsToZero(st, word, max_tokens) ==
    LET word_length == count_tokens(<<word, SP>>)
    IN  IF st.current_length + word_length > max_tokens
        THEN [current_chunk |-> <<word>>,
              chunks |-> Append(st.chunks, JoinWords(st.current_chunk)),
              current_length |-> 0]
        ELSE [current_chunk |-> Append(st.current_chunk, word),
              chunks |-> st.chunks,
              current_length |-> st.current_length + word_length]

\* SplitStep gone wrong: the budget test is >= instead of >.
SplitStepOffByOne(st, word, max_tokens) ==
    LET word_length == count_tokens(<<word, SP>>)
    IN  IF st.current_length + word_length >= max_tokens
        THEN [current_chunk |-> <<word>>,
              chunks |-> Append(st.chunks, JoinWords(st.current_chunk)),
              current_length |-> word_length]
        ELSE [current_chunk |-> Append(st.current_chunk, word),
              chunks |-> st.chunks,
              current_length |-> st.current_length + word_length]

\* One iteration of `for word in words`.
SplitStep(st, word, max_tokens) ==
    LET word_length == count_tokens(<<word, SP>>)
    IN  IF st.current_length + word_length > max_tokens
        THEN [current_chunk |-> <<word>>,
              chunks |-> Append(st.chunks, JoinWords(st.current_chunk)),
              current_length |-> word_length]
        ELSE [current_chunk |-> Append(st.current_chunk, word),
              chunks |-> st.chunks,
              current_length |-> st.current_length + word_length]

RECURSIVE SplitLoop(_, _, _)
SplitLoop(st, words, max_tokens) ==
    IF words = <<>> THEN st
    ELSE SplitLoop(SplitStep(st, Head(words), max_tokens), Tail(words), max_tokens)

split_email_by_tokens(email_text, max_tokens) ==
    LET words == PySplit(email_text)
        st == SplitLoop(SplitStart, words, max_tokens)
    IN  IF st.current_chunk # <<>>
        THEN Append(st.chunks, JoinWords(st.current_chunk))
        ELSE st.chunks

\* -------------------------------------------------------- link extraction
HTTP == "http"

\* "http" in response / response.find("http"): 0 when absent
RECURSIVE FindHttp(_, _)
FindHttp(s, i) ==
    IF i > Len(s) THEN 0
    ELSE IF s[i] = HTTP THEN i
    ELSE FindHttp(s, i + 1)

\* response.split("http", 1) when "http" occurs in response
SplitOnceHttp(response) ==
    LET k == FindHttp(response, 1)
    IN  <<SubSeq(response, 1, k - 1), SubSeq(response, k + 1, Len(response))>>

\* The end of the greedy run [^\s]+ starting at i (i - 1 when the run is empty)
RECURSIVE RunEnd(_, _)
RunEnd(s, i) ==
    IF i > Len(s) \/ IsSpace(s[i]) THEN i - 1 ELSE RunEnd(s, i + 1)

\* Where a match of https?://[^\s]+ starting at i ends, 0 when there is none.
MatchUrlAt(s, i) ==
    IF i > Len(s) \/ s[i] # HTTP THEN 0
    ELSE LET j == IF i + 1 <= Len(s) /\ s[i + 1] = "s" /\ i + 2 <= Len(s) /\ s[i + 2] = "://"
                  THEN i + 2
                  ELSE IF i + 1 <= Len(s) /\ s[i + 1] = "://" THEN i + 1 ELSE 0
         IN  IF j = 0 THEN 0
             ELSE IF RunEnd(s, j + 1) >= j + 1 THEN RunEnd(s, j + 1) ELSE 0

\* re.findall: leftmost, non-overlapping matches, in order
RECURSIVE FindAllUrls(_, _, _)
FindAllUrls(s, i, acc) ==
    IF i > Len(s) THEN acc
    ELSE LET e == MatchUrlAt(s, i)
         IN  IF e = 0 THEN FindAllUrls(s, i + 1, acc)
             ELSE FindAllUrls(s, e + 1, Append(acc, SubSeq(s, i, e)))

extract_links(text) == FindAllUrls(text, 1, <<>>)

\* SeparateSummaryAndLinks gone wrong: "http" is not put back in front of the text that is scanned.
SeparateSummaryAndLinksNoHttp(response) ==
    IF FindHttp(response, 1) # 0
    THEN LET parts == SplitOnceHttp(response)
         IN  [summary |-> Strip(parts[1]), links |-> extract_links(parts[2])]
    ELSE [summary |-> Strip(response), links |-> <<>>]

\* summarize_and_extract_links: the split of one response
SeparateSummaryAndLinks(response) ==
    IF FindHttp(response, 1) # 0
    THEN LET parts == SplitOnceHttp(response)
         IN  [summary |-> Strip(parts[1]), links |-> extract_links(<<HTTP>> \o parts[2])]
    ELSE [summary |-> Strip(response), links |-> <<>>]

\* ------------------------------------------------------------------ state
VARIABLES
    \* a function applied on its own: which one, its arguments, what it returned
    fn, arg, ret, returned,
    \* openai_request: its parameters and locals, and what the service answered
    rq, retries, delay, slept, attempt_log, rstate, rresult,
    \* a run of one script's main()
    variant, pc, email_texts, calls, stdout,
    summaries, chunks, chunk_summaries,
    batch_size, bi, batches, batch_summaries, final_summary,
    combined_email_text, top_topics, ti, topic_data, final_output,
    files

fnVars == <<fn, arg, ret, returned>>
retryVars == <<rq, retries, delay, slept, attempt_log, rstate, rresult>>
stage1Vars == <<summaries, chunks, chunk_summaries>>
stage2Vars == <<batch_size, bi, batches, batch_summaries>>
topicVars == <<combined_email_text, top_topics, ti, topic_data, final_output>>
mainVars == <<variant, pc, email_texts, calls, stdout, stage1Vars, stage2Vars,
              final_summary, topicVars, files>>
vars == <<fnVars, retryVars, mainVars>>

SeqsUpTo(S, n) == UNION {[1..k -> S] : k \in 0..n}

FnIdle == fn = "none" /\ arg = <<>> /\ ret = <<>> /\ returned = FALSE

RetryIdle ==
    /\ rq = <<>> /\ retries = 0 /\ delay = 0 /\ slept = 0
    /\ attempt_log = <<>> /\ rstate = "idle" /\ rresult = <<>>

MainLocalsUnset ==
    /\ email_texts = <<>> /\ calls = <<>> /\ stdout = <<>>
    /\ summaries = <<>> /\ chunks = <<>> /\ chunk_summaries = <<>>
    /\ batch_size = 0 /\ bi = 0 /\ batches = <<>> /\ batch_summaries = <<>>
    /\ final_summary = <<>>
    /\ combined_email_text = <<>> /\ top_topics = <<>> /\ ti = 0
    /\ topic_data = <<>> /\ final_output = <<>>
    /\ files = <<>>

MainIdle == variant = "none" /\ pc = "idle" /\ MainLocalsUnset

\* ------------------------------------------------ pure functions, applied
LinkTokens == {"x", SP, HTTP, "s", "://"}

\* What openai_request returns for a completion whose content is `content`.
CompletionResult(content) == Strip(content)

FnInit ==
    /\ RetryIdle
    /\ returned = FALSE /\ ret = <<>>
    /\ \/ /\ fn = "split_email_by_tokens"
          /\ \E t \in SeqsUpTo(Words \cup {SP}, MaxLen), m \in 1..MaxBudget :
                /\ WordsApart(t)
                /\ arg = [email_text |-> t, max_tokens |-> m]
          /\ MainIdle
       \/ /\ fn = "separate_summary_and_links"
          /\ \E c \in SeqsUpTo(LinkTokens, MaxLinkLen) :
                arg = [response |-> CompletionResult(c)]
          /\ MainIdle
       \/ /\ fn = "batch_summarize_and_identify_topics"
          /\ arg = <<>>
          /\ variant = "none" /\ pc = "batch"
          /\ \E l \in SeqsUpTo({<<"s1">>, <<"s2">>, <<"s3">>}, MaxSummaries),
                b \in 1..MaxBudget :
                /\ summaries = l
                /\ batch_size = b
          /\ email_texts = <<>> /\ calls = <<>> /\ stdout = <<>>
          /\ chunks = <<>> /\ chunk_summaries = <<>>
          /\ bi = 0 /\ batches = <<>> /\ batch_summaries = <<>>
          /\ final_summary = <<>>
          /\ combined_email_text = <<>> /\ top_topics = <<>> /\ ti = 0
          /\ topic_data = <<>> /\ final_output = <<>>
          /\ files = <<>>

ApplySplit ==
    /\ fn = "split_email_by_tokens" /\ ~returned
    /\ ret' = split_email_by_tokens(arg.email_text, arg.max_tokens)
    /\ returned' = TRUE
    /\ UNCHANGED <<fn, arg, retryVars, mainVars>>

ApplySeparate ==
    /\ fn = "separate_summary_and_links" /\ ~returned
    /\ ret' = SeparateSummaryAndLinks(arg.response)
    /\ returned' = TRUE
    /\ UNCHANGED <<fn, arg, retryVars, mainVars>>

\* ------------------------------------------------------- completion calls
INSTR_EMAIL == "Identify the key topics discussed in this email. Return the topics in a bulleted list along with links."
INSTR_BATCH == "Identify the most important and frequent topics discussed in these emails. Return the topics in a bulleted list along with links."
INSTR_FINAL == "Provide a final bulleted list of the overall most important topics from these emails along with links."

generate_prompt(content, instruction) == <<instruction, NL>> \o content

\* The service's answer to the n-th call of a run is text of its own.
ReplyToks ==
    <<"r1", "r2", "r3", "r4", "r5", "r6", "r7", "r8", "r9", "r10",
      "r11", "r12", "r13", "r14", "r15", "r16", "r17", "r18", "r19", "r20",
      "r21", "r22", "r23", "r24", "r25", "r26", "r27", "r28", "r29", "r30",
      "r31", "r32", "r33", "r34", "r35", "r36", "r37", "r38", "r39", "r40">>

Contents(n) == {<<ReplyToks[n]>>, <<SP, ReplyToks[n], NL>>}

Returned(prompt, content) ==
    [prompt |-> prompt, ok |-> TRUE, reply |-> CompletionResult(content)]

Raised(prompt) == [prompt |-> prompt, ok |-> FALSE, reply |-> <<>>]

\* ------------------------------------------------------- get_email_content
\* One message of the mailbox: its subject, and its text/plain body if any.
Messages ==
    {[subject |-> <<"a">>, has_text |-> TRUE, body |-> <<"bb">>],
     [subject |-> <<"huge">>, has_text |-> TRUE, body |-> <<"a">>],
     [subject |-> <<"a">>, has_text |-> FALSE, body |-> <<>>]}

EmailText(msg) == <<"Subject:", SP>> \o msg.subject \o <<NL, "Body:", SP>> \o msg.body

RECURSIVE EmailsOf(_)
EmailsOf(messages) ==
    IF messages = <<>> THEN <<>>
    ELSE IF Head(messages).has_text
         THEN <<EmailText(Head(messages))>> \o EmailsOf(Tail(messages))
         ELSE EmailsOf(Tail(messages))

get_email_content(messages, http_error) ==
    IF http_error THEN <<>> ELSE EmailsOf(messages)

\* ------------------------------------------------------------------ main()
Variants ==
    {"get_summaries", "get_top_topics", "get_top_topics_and_links", "get_email_text"}

\* AfterFetch gone wrong: main() goes on to its first stage whatever was fetched.
AfterFetchIgnoresEmpty(v, emails) ==
    CASE v = "get_summaries" -> "identify"
      [] v = "get_email_text" -> "write"
      [] OTHER -> "summarize"

\* Where main() goes once get_email_content has returned.
AfterFetch(v, emails) ==
    IF emails = <<>> THEN "empty"
    ELSE CASE v = "get_summaries" -> "identify"
           [] v = "get_email_text" -> "write"
           [] OTHER -> "summarize"

\* What main() prints right after the fetch (a list of lines).
FetchPrints(v, emails) ==
    IF emails = <<>>
    THEN IF v \in {"get_top_topics", "get_top_topics_and_links"}
         THEN << <<"No email content available.">> >>
         ELSE <<>>
    ELSE IF v = "get_top_topics_and_links" THEN << <<"Processing emails.">> >> ELSE <<>>

MainFetch ==
    /\ pc = "main"
    /\ \E messages \in SeqsUpTo(Messages, MaxEmails), http_error \in BOOLEAN :
          LET emails == get_email_content(messages, http_error)
          IN  /\ email_texts' = emails
              /\ pc' = AfterFetch(variant, emails)
              /\ stdout' = stdout \o FetchPrints(variant, emails)
              /\ combined_email_text' =
                    IF variant \in {"get_summaries", "get_email_text"} /\ emails # <<>>
                    THEN JoinStrings(<<NL, NL>>, emails)
                    ELSE combined_email_text
    /\ UNCHANGED <<fnVars, retryVars, variant, calls, stage1Vars, stage2Vars,
                   final_summary, top_topics, ti, topic_data, final_output, files>>

\* ------------------------------------------- stage 1: one call per record
\* summarize_email splits a record only in get_top_topics.py.
Oversized(email) == variant = "get_top_topics" /\ count_tokens(email) > TOKEN_LIMIT

\* StageAppend gone wrong: a new result is put in front of the results so far.
StageAppendInFront(results, r) == <<r>> \o results

\* results.append(r), also the list comprehension's next element
StageAppend(results, r) == Append(results, r)

\* " ".join(summaries) of the chunks' results
JoinChunkSummaries(parts) == JoinStrings(<<SP>>, parts)

NextEmail == email_texts[Len(summaries) + 1]

EmailPrompt == generate_prompt(NextEmail, INSTR_EMAIL)

ChunkPrompt == generate_prompt(chunks[Len(chunk_summaries) + 1], INSTR_EMAIL)

SummarizeEmail ==
    /\ pc = "summarize" /\ Len(summaries) < Len(email_texts)
    /\ ~Oversized(NextEmail)
    /\ \E content \in Contents(Len(calls) + 1) :
          LET call == Returned(EmailPrompt, content)
          IN  /\ calls' = Append(calls, call)
              /\ summaries' = StageAppend(summaries, call.reply)
    /\ UNCHANGED <<fnVars, retryVars, variant, pc, email_texts, stdout, chunks,
                   chunk_summaries, stage2Vars, final_summary, topicVars, files>>

SummarizeEmailSplit ==
    /\ pc = "summarize" /\ Len(summaries) < Len(email_texts)
    /\ Oversized(NextEmail)
    /\ chunks' = split_email_by_tokens(NextEmail, TOKEN_LIMIT)
    /\ chunk_summaries' = <<>>
    /\ pc' = "chunks"
    /\ UNCHANGED <<fnVars, retryVars, variant, email_texts, calls, stdout, summaries,
                   stage2Vars, final_summary, topicVars, files>>

SummarizeChunk ==
    /\ pc = "chunks" /\ Len(chunk_summaries) < Len(chunks)
    /\ \E content \in Contents(Len(calls) + 1) :
          LET call == Returned(ChunkPrompt, content)
          IN  /\ calls' = Append(calls, call)
              /\ chunk_summaries' = StageAppend(chunk_summaries, call.reply)
    /\ UNCHANGED <<fnVars, retryVars, variant, pc, email_texts, stdout, summaries,
                   chunks, stage2Vars, final_summary, topicVars, files>>

SummarizeEmailJoin ==
    /\ pc = "chunks" /\ Len(chunk_summaries) = Len(chunks)
    /\ summaries' = StageAppend(summaries, JoinChunkSummaries(chunk_summaries))
    /\ chunks' = <<>>
    /\ chunk_summaries' = <<>>
    /\ pc' = "summarize"
    /\ UNCHANGED <<fnVars, retryVars, variant, email_texts, calls, stdout,
                   stage2Vars, final_summary, topicVars, files>>

\* main() passes batch_size=5
MAIN_BATCH_SIZE == 5

SummariesDone ==
    /\ pc = "summarize" /\ Len(summaries) = Len(email_texts)
    /\ pc' = "batch"
    /\ batch_size' = MAIN_BATCH_SIZE
    /\ bi' = 0
    /\ batches' = <<>>
    /\ batch_summaries' = <<>>
    /\ UNCHANGED <<fnVars, retryVars, variant, email_texts, calls, stdout,
                   stage1Vars, final_summary, topicVars, files>>

\* -------------------------------------------- stage 2: one call per batch
\* batch = summaries[i:i + batch_size]
BatchAt(l, i, size) == Slice(l, i, i + size)

BatchPrompt ==
    LET batch == BatchAt(summaries, bi, batch_size)
        combined_batch == JoinStrings(<<NL, NL>>, batch)
    IN  generate_prompt(combined_batch, INSTR_BATCH)

BatchCall ==
    /\ pc = "batch" /\ bi < Len(summaries)
    /\ \E content \in Contents(Len(calls) + 1) :
          LET call == Returned(BatchPrompt, content)
          IN  /\ calls' = Append(calls, call)
              /\ batches' = Append(batches, BatchAt(summaries, bi, batch_size))
              /\ batch_summaries' = StageAppend(batch_summaries, call.reply)
    /\ bi' = bi + batch_size
    /\ UNCHANGED <<fnVars, retryVars, variant, pc, email_texts, stdout, stage1Vars,
                   batch_size, final_summary, topicVars, files>>

BatchReturn ==
    /\ pc = "batch" /\ bi >= Len(summaries)
    /\ pc' = IF fn = "batch_summarize_and_identify_topics" THEN "returned" ELSE "final"
    /\ returned' = (fn = "batch_summarize_and_identify_topics")
    /\ UNCHANGED <<fn, arg, ret, retryVars, variant, email_texts, calls, stdout,
                   stage1Vars, stage2Vars, final_summary, topicVars, files>>

\* ------------------------------------------------------ stage 3: the rollup
\* FinalPrompt gone wrong: the batch results are joined by a single line break.
FinalPromptSingleNewline ==
    LET combined_summaries == JoinStrings(<<NL>>, batch_summaries)
    IN  generate_prompt(combined_summaries, INSTR_FINAL)

FinalPrompt ==
    LET combined_summaries == JoinStrings(<<NL, NL>>, batch_summaries)
    IN  generate_prompt(combined_summaries, INSTR_FINAL)

FinalSummary ==
    /\ pc = "final"
    /\ \E content \in Contents(Len(calls) + 1) :
          LET call == Returned(FinalPrompt, content)
          IN  /\ calls' = Append(calls, call)
              /\ final_summary' = call.reply
              /\ stdout' = stdout \o
                    << <<"Final Summary of Important Topics from the Week:">>, call.reply >>
    /\ pc' = "done"
    /\ UNCHANGED <<fnVars, retryVars, variant, email_texts, stage1Vars, stage2Vars,
                   topicVars, files>>

\* ------------------------------------------ get_summaries.py: the topics
\* str.split('\n'): the pieces between line breaks, empty ones included
RECURSIVE SplitLinesFrom(_, _, _, _)
SplitLinesFrom(s, i, cur, acc) ==
    IF i > Len(s) THEN Append(acc, cur)
    ELSE IF s[i] = NL THEN SplitLinesFrom(s, i + 1, <<>>, Append(acc, cur))
    ELSE SplitLinesFrom(s, i + 1, Append(cur, s[i]), acc)

SplitLines(s) == SplitLinesFrom(s, 1, <<>>, <<>>)

\* [topic.strip() for topic in topics if topic.strip()]
RECURSIVE StripNonEmpty(_)
StripNonEmpty(lines) ==
    IF lines = <<>> THEN <<>>
    ELSE IF Strip(Head(lines)) # <<>>
         THEN <<Strip(Head(lines))>> \o StripNonEmpty(Tail(lines))
         ELSE StripNonEmpty(Tail(lines))

\* ParseTopics gone wrong: blank lines are stripped but not filtered out.
ParseTopicsKeepsBlank(response) ==
    LET lines == SplitLines(response)
    IN  [k \in 1..Len(lines) |-> Strip(lines[k])]

ParseTopics(response) == StripNonEmpty(SplitLines(response))

\* What the service may answer to the topic-identification prompt.
TopicContents ==
    {<<>>, <<SP, NL, SP>>, <<"A">>, <<"A", NL, "B">>, <<"A", NL, SP, NL, "B", NL>>,
     <<"A", NL, "A">>, <<"B", SP, NL, "A", NL, "B">>}

\* What the service may answer to a per-topic prompt.
SummaryContents ==
    {<<"x">>,
     <<"x", SP, HTTP, "://", "u", NL>>,
     <<"y", SP, HTTP, "s", "://", "v", SP, "x", SP, HTTP, "://", "w">>}

IdentifyPrompt ==
    <<"Identify the top 5-10 most important topics discussed in the following emails:", NL, NL>>
    \o combined_email_text
    \o <<SP, "Return only the topics in a list with no additional text.">>

TopicPrompt ==
    <<"Summarize the topic '">> \o top_topics[ti + 1]
    \o <<"' based on the following emails and extract all relevant links:", NL, NL>>
    \o combined_email_text
    \o <<NL, NL, "Return the summary first, followed by a list of links.">>

IdentifyTopTopics ==
    /\ pc = "identify"
    /\ \E content \in TopicContents :
          LET call == Returned(IdentifyPrompt, content)
              topics == ParseTopics(call.reply)
          IN  /\ calls' = Append(calls, call)
              /\ top_topics' = topics
              /\ pc' = IF topics = <<>> THEN "no_topics" ELSE "topics"
    /\ ti' = 0
    /\ topic_data' = <<>>
    /\ UNCHANGED <<fnVars, retryVars, variant, email_texts, stdout, stage1Vars,
                   stage2Vars, final_summary, combined_email_text, final_output, files>>

\* A dict is the list of its items in insertion order, its keys distinct.
RECURSIVE DictIndex(_, _, _)
DictIndex(d, key, i) ==
    IF i > Len(d) THEN 0
    ELSE IF d[i].topic = key THEN i
    ELSE DictIndex(d, key, i + 1)

\* topic_data[topic] of the defaultdict: a missing key is inserted first
DictTouch(d, key) ==
    IF DictIndex(d, key, 1) = 0
    THEN Append(d, [topic |-> key, summary |-> <<>>, links |-> <<>>])
    ELSE d

\* topic_data[topic]['summary'] = summary; topic_data[topic]['links'].extend(links)
StoreTopic(d, key, summary, links) ==
    LET d1 == DictTouch(d, key)
        k == DictIndex(d1, key, 1)
    IN  [d1 EXCEPT ![k] = [topic |-> key, summary |-> summary, links |-> @.links \o links]]

SummarizeTopic ==
    /\ pc = "topics" /\ ti < Len(top_topics)
    /\ \E content \in SummaryContents :
          LET call == Returned(TopicPrompt, content)
              parts == SeparateSummaryAndLinks(call.reply)
          IN  /\ calls' = Append(calls, call)
              /\ topic_data' = StoreTopic(topic_data, top_topics[ti + 1],
                                          parts.summary, parts.links)
    /\ ti' = ti + 1
    /\ UNCHANGED <<fnVars, retryVars, variant, pc, email_texts, stdout, stage1Vars,
                   stage2Vars, final_summary, combined_email_text, top_topics,
                   final_output, files>>

\* f"Topic: {topic}\nSummary: {summary}\nLinks:\n{link_text}\n"
Section(topic, summary, links) ==
    <<"Topic: ">> \o topic \o <<NL, "Summary: ">> \o summary
    \o <<NL, "Links:", NL>> \o JoinStrings(<<NL>>, links) \o <<NL>>

format_output(d) ==
    JoinStrings(<<NL>>, [k \in 1..Len(d) |-> Section(d[k].topic, d[k].summary, d[k].links)])

FormatAndPrint ==
    /\ pc = "topics" /\ ti = Len(top_topics)
    /\ final_output' = format_output(topic_data)
    /\ stdout' = Append(stdout, format_output(topic_data))
    /\ pc' = "done"
    /\ UNCHANGED <<fnVars, retryVars, variant, email_texts, calls, stage1Vars,
                   stage2Vars, final_summary, combined_email_text, top_topics, ti,
                   topic_data, files>>

\* -------------------------------------------------------- get_email_text.py
MAX_WORDS == 10000

RECURSIVE PartsFrom(_, _, _, _)
PartsFrom(words, i, num_parts, max_words) ==
    IF i >= num_parts THEN <<>>
    ELSE <<JoinWords(Slice(words, i * max_words, (i + 1) * max_words))>>
         \o PartsFrom(words, i + 1, num_parts, max_words)

\* The texts of the files split_file_into_parts writes, in order.
split_file_into_parts(input_string, max_words) ==
    LET words == PySplit(input_string)
        num_parts == (Len(words) \div max_words)
                     + (IF Len(words) % max_words # 0 THEN 1 ELSE 0)
    IN  PartsFrom(words, 0, num_parts, max_words)

WriteParts ==
    /\ pc = "write"
    /\ files' = split_file_into_parts(combined_email_text, MAX_WORDS)
    /\ pc' = "done"
    /\ UNCHANGED <<fnVars, retryVars, variant, email_texts, calls, stdout, stage1Vars,
                   stage2Vars, final_summary, topicVars>>

\* ------------------------------------------------- a completion call raises
CallPending ==
    \/ pc = "summarize" /\ Len(summaries) < Len(email_texts) /\ ~Oversized(NextEmail)
    \/ pc = "chunks" /\ Len(chunk_summaries) < Len(chunks)
    \/ pc = "batch" /\ bi < Len(summaries)
    \/ pc = "final"
    \/ pc = "identify"
    \/ pc = "topics" /\ ti < Len(top_topics)

PendingPrompt ==
    CASE pc = "summarize" -> EmailPrompt
      [] pc = "chunks" -> ChunkPrompt
      [] pc = "batch" -> BatchPrompt
      [] pc = "final" -> FinalPrompt
      [] pc = "identify" -> IdentifyPrompt
      [] pc = "topics" -> TopicPrompt

\* CompletionRaises gone wrong: the exception is swallowed and the stage goes on to its next item
\* with an empty result.
CompletionRaisesSwallowed ==
    /\ CallPending
    /\ calls' = Append(calls, Raised(PendingPrompt))
    /\ summaries' = IF pc = "summarize" THEN Append(summaries, <<>>) ELSE summaries
    /\ chunk_summaries' = IF pc = "chunks" THEN Append(chunk_summaries, <<>>)
                          ELSE chunk_summaries
    /\ bi' = IF pc = "batch" THEN bi + batch_size ELSE bi
    /\ ti' = IF pc = "topics" THEN ti + 1 ELSE ti
    /\ pc' = CASE pc = "final" -> "done"
               [] pc = "identify" -> "no_topics"
               [] OTHER -> pc
    /\ UNCHANGED <<fnVars, retryVars, variant, email_texts, stdout, chunks, batch_size,
                   batches, batch_summaries, final_summary, combined_email_text,
                   top_topics, topic_data, final_output, files>>

\* openai_request raises; nothing in main() or the stages catches it.
CompletionRaises ==
    /\ CallPending
    /\ calls' = Append(calls, Raised(PendingPrompt))
    /\ pc' = "failed"
    /\ UNCHANGED <<fnVars, retryVars, variant, email_texts, stdout, stage1Vars,
                   stage2Vars, final_summary, topicVars, files>>

\* ------------------------------------------------------ the run of a script
Init ==
    /\ FnIdle /\ RetryIdle
    /\ variant \in Variants
    /\ pc = "main"
    /\ MainLocalsUnset

Next ==
    \/ MainFetch
    \/ SummarizeEmail \/ SummarizeEmailSplit \/ SummarizeChunk \/ SummarizeEmailJoin
    \/ SummariesDone
    \/ BatchCall \/ BatchReturn
    \/ FinalSummary
    \/ IdentifyTopTopics \/ SummarizeTopic \/ FormatAndPrint
    \/ WriteParts
    \/ CompletionRaises

Spec == Init /\ [][Next]_vars

\* --------------------------------------------- the functions on their own
FnNext ==
    \/ ApplySplit
    \/ ApplySeparate
    \/ BatchCall \/ BatchReturn
    \/ CompletionRaises

SpecFn == FnInit /\ [][FnNext]_vars

\* ---------------------------------------------------------- openai_request
\* get_summaries.py reads MAX_RETRIES and DELAY from the module; utils.py reads
\* MAX_RETRIES, INITIAL_DELAY and BACKOFF_FACTOR from config.yaml.
Requests ==
    {[impl |-> "get_summaries", max_retries |-> MAX_RETRIES, initial_delay |-> 0,
      backoff_factor |-> 1]}
    \cup {[impl |-> "utils", max_retries |-> m, initial_delay |-> d, backoff_factor |-> b] :
            m \in 0..MaxCfgRetries, d \in {1, 2}, b \in {1, 2}}

\* The Retry-After header of a rate-limit response, when it carries one.
RetryAfterHeaders ==
    {[present |-> FALSE, seconds |-> 0], [present |-> TRUE, seconds |-> 1],
     [present |-> TRUE, seconds |-> 30]}

\* e.response.headers.get("Retry-After", DELAY)
RetryAfter(header) == IF header.present THEN header.seconds ELSE DELAY

RetryContents == {<<"x">>, <<SP, "x", NL>>, <<>>}

\* MayAttempt gone wrong: the loop test is <= instead of <.
MayAttemptOffByOne(r, max) == r <= max

\* while retries < MAX_RETRIES
MayAttempt(r, max) == r < max

RetryInit ==
    /\ FnIdle /\ MainIdle
    /\ rq \in Requests
    /\ retries = 0
    /\ delay = rq.initial_delay
    /\ slept = 0
    /\ attempt_log = <<>>
    /\ rstate = "loop"
    /\ rresult = <<>>

AttemptReturns ==
    /\ rstate = "loop" /\ MayAttempt(retries, rq.max_retries)
    /\ \E content \in RetryContents :
          /\ attempt_log' = Append(attempt_log, [outcome |-> "ok", content |-> content])
          /\ rresult' = CompletionResult(content)
    /\ rstate' = "returned"
    /\ UNCHANGED <<fnVars, rq, retries, delay, slept, mainVars>>

AttemptRateLimited ==
    /\ rstate = "loop" /\ MayAttempt(retries, rq.max_retries)
    /\ attempt_log' = Append(attempt_log, [outcome |-> "rate_limited", content |-> <<>>])
    /\ retries' = retries + 1
    /\ \E header \in RetryAfterHeaders :
          slept' = IF rq.impl = "get_summaries" THEN RetryAfter(header) ELSE delay
    /\ delay' = IF rq.impl = "utils" THEN delay * rq.backoff_factor ELSE delay
    /\ UNCHANGED <<fnVars, rq, rstate, rresult, mainVars>>

\* Any other exception of the client is not caught.
AttemptFails ==
    /\ rstate = "loop" /\ MayAttempt(retries, rq.max_retries)
    /\ attempt_log' = Append(attempt_log, [outcome |-> "error", content |-> <<>>])
    /\ rstate' = "raised_other"
    /\ UNCHANGED <<fnVars, rq, retries, delay, slept, rresult, mainVars>>

\* raise Exception("Max retries reached. Please try again later.")
RaiseMaxRetries ==
    /\ rstate = "loop" /\ ~MayAttempt(retries, rq.max_retries)
    /\ rstate' = "raised_max_retries"
    /\ UNCHANGED <<fnVars, rq, retries, delay, slept, attempt_log, rresult, mainVars>>

RetryNext == AttemptReturns \/ AttemptRateLimited \/ AttemptFails \/ RaiseMaxRetries

\* Every attempt ends (the client call returns or raises, the sleep is finite).
SpecRetry == RetryInit /\ [][RetryNext]_vars /\ WF_vars(RetryNext)

\* =================================================================== claims
RECURSIVE Flatten(_)
Flatten(lists) ==
    IF lists = <<>> THEN <<>> ELSE Head(lists) \o Flatten(Tail(lists))

\* The words of every chunk, chunk after chunk.
WordsOfChunks(cs) == Flatten([k \in 1..Len(cs) |-> PySplit(cs[k])])

\* What the splitter's budget test adds up for a chunk: count_tokens(word + ' ')
\* of each of its words.
RECURSIVE EstimatedCost(_)
EstimatedCost(ws) ==
    IF ws = <<>> THEN 0
    ELSE count_tokens(<<Head(ws), SP>>) + EstimatedCost(Tail(ws))

SplitReturned == fn = "split_email_by_tokens" /\ returned

BatcherRunning == fn = "batch_summarize_and_identify_topics"

Min(a, b) == IF a < b THEN a ELSE b

\* C1: batching is an order-preserving partition. The words of the chunks
\* split_email_by_tokens returns, read chunk after chunk, are exactly the words
\* of the text; the batches batch_summarize_and_identify_topics has formed so
\* far, read one after the other, are exactly the summaries up to its loop
\* index, and all of them once it has returned.
C1_BatchesPartitionInput ==
    /\ SplitReturned => WordsOfChunks(ret) = PySplit(arg.email_text)
    /\ BatcherRunning =>
          /\ Flatten(batches) = SubSeq(summaries, 1, Min(bi, Len(summaries)))
          /\ returned => Flatten(batches) = summaries

C1_Witness ==
    /\ BatcherRunning /\ returned
    /\ Len(batches) = 2
    /\ Len(batches[1]) = 3 /\ Len(batches[2]) = 1
    /\ summaries[1] # summaries[2]

\* C2: every chunk split_email_by_tokens returns costs at most max_tokens by the
\* splitter's own estimate, unless it is a single word that alone costs more.
C2_ChunksWithinBudget ==
    SplitReturned =>
        \A k \in 1..Len(ret) :
            LET ws == PySplit(ret[k])
            IN  \/ EstimatedCost(ws) <= arg.max_tokens
                \/ Len(ws) = 1 /\ EstimatedCost(ws) > arg.max_tokens

C2_Witness ==
    /\ SplitReturned
    /\ \E k \in 1..Len(ret) :
          Len(PySplit(ret[k])) = 1 /\ EstimatedCost(PySplit(ret[k])) > arg.max_tokens
    /\ \E k \in 1..Len(ret) :
          Len(PySplit(ret[k])) = 2 /\ EstimatedCost(PySplit(ret[k])) = arg.max_tokens

\* C3: split_email_by_tokens never returns an empty chunk, and returns no chunk
\* at all for a text without words.
C3_NoEmptyBatch ==
    SplitReturned =>
        /\ \A k \in 1..Len(ret) : PySplit(ret[k]) # <<>>
        /\ PySplit(arg.email_text) = <<>> => ret = <<>>

\* C4 as claimed: whenever max_tokens is at least the cost of all the words,
\* split_email_by_tokens returns exactly one chunk, holding all the words.
C4_SingleBatchWhenFits_Original ==
    (SplitReturned /\ arg.max_tokens >= EstimatedCost(PySplit(arg.email_text))) =>
        /\ Len(ret) = 1
        /\ PySplit(ret[1]) = PySplit(arg.email_text)

\* C4: for a text with at least one word, whenever max_tokens is at least the
\* cost of all the words, split_email_by_tokens returns exactly one chunk, and
\* it holds all the words in order.
C4_SingleBatchWhenFits ==
    (/\ SplitReturned
     /\ PySplit(arg.email_text) # <<>>
     /\ arg.max_tokens >= EstimatedCost(PySplit(arg.email_text))) =>
        /\ Len(ret) = 1
        /\ PySplit(ret[1]) = PySplit(arg.email_text)

C4_Witness ==
    /\ SplitReturned
    /\ Len(PySplit(arg.email_text)) = 3
    /\ arg.max_tokens = EstimatedCost(PySplit(arg.email_text))
    /\ Len(ret) = 1

\* ----------------------------------------------------------------- the run
SummaryLines ==
    {line \in {stdout[k] : k \in 1..Len(stdout)} :
        line \notin {<<"No email content available.">>, <<"Processing emails.">>}}

NoSummaryOutput ==
    /\ final_summary = <<>>
    /\ final_output = <<>>
    /\ SummaryLines = {}

\* C5: once the message source has returned no record, main() of every script
\* has returned (nothing is left to run), no completion call was issued and
\* no summary, formatted output or file was produced.
C5_EmptySourceEndsQuietly ==
    (pc # "main" /\ email_texts = <<>>) =>
        /\ pc = "empty"
        /\ ~ENABLED Next
        /\ calls = <<>>
        /\ NoSummaryOutput
        /\ files = <<>>

C5_Witness ==
    /\ pc = "empty"
    /\ variant = "get_top_topics"
    /\ stdout = << <<"No email content available.">> >>

\* C6: a completion call that raises is the last call of the run, the run is
\* then in its failure state with nothing left to run, and no final summary or
\* formatted output has been produced.
C6_FailFast ==
    /\ \A k \in 1..(Len(calls) - 1) : calls[k].ok
    /\ (calls # <<>> /\ ~calls[Len(calls)].ok) =>
          /\ pc = "failed"
          /\ ~ENABLED Next
          /\ NoSummaryOutput
    /\ pc = "failed" => (calls # <<>> /\ ~calls[Len(calls)].ok)

C6_Witness ==
    /\ pc = "failed"
    /\ variant = "get_top_topics"
    /\ Len(batch_summaries) = 1
    /\ Len(summaries) = 6

\* ----------------------------------------------------------- openai_request
RetryEnded == rstate \in {"returned", "raised_max_retries", "raised_other"}

AllRateLimited(log) == \A k \in 1..Len(log) : log[k].outcome = "rate_limited"

RetrySafe ==
    LET n == Len(attempt_log)
    IN  /\ n <= rq.max_retries
        /\ AllRateLimited(SubSeq(attempt_log, 1, n - 1))
        /\ (n > 0 /\ attempt_log[n].outcome = "ok") =>
              /\ rstate = "returned"
              /\ rresult = CompletionResult(attempt_log[n].content)
        /\ rstate = "returned" => (n > 0 /\ attempt_log[n].outcome = "ok")
        /\ rstate = "raised_max_retries" =>
              (n = rq.max_retries /\ AllRateLimited(attempt_log))
        /\ (RetryEnded /\ n = rq.max_retries /\ AllRateLimited(attempt_log)) =>
              rstate = "raised_max_retries"

\* C7: openai_request ends, whatever the service answers; it makes at most
\* MAX_RETRIES attempts, every attempt before its last one was rate-limited, a
\* successful attempt is its last and its (stripped) content is what is
\* returned, and it raises the max-retries error exactly when it has ended
\* after MAX_RETRIES attempts that were all rate-limited.
C7_RetryBoundedAndEnds == [](rstate # "idle" => RetrySafe) /\ <>RetryEnded

C7_Witness ==
    /\ rstate = "raised_max_retries"
    /\ rq.impl = "get_summaries"
    /\ Len(attempt_log) = MAX_RETRIES
    /\ slept = DELAY

\* -------------------------------------------------------- results of a stage
\* The texts summarize_email sends for one record.
InputsOf(email) ==
    IF Oversized(email) THEN split_email_by_tokens(email, TOKEN_LIMIT) ELSE <<email>>

\* The number of calls made for the records before the k-th.
RECURSIVE CallsBefore(_)
CallsBefore(k) ==
    IF k <= 1 THEN 0
    ELSE CallsBefore(k - 1) + Len(InputsOf(email_texts[k - 1]))

RepliesFor(k) ==
    [j \in 1..Len(InputsOf(email_texts[k])) |-> calls[CallsBefore(k) + j].reply]

ResultFor(k) ==
    IF Oversized(email_texts[k])
    THEN JoinStrings(<<SP>>, RepliesFor(k))
    ELSE RepliesFor(k)[1]

\* C8: in the per-record-then-batch scripts the k-th summary is the result of
\* the call(s) made for the k-th record (the chunks' results joined by a space
\* when the record was split), there is one summary per record once stage 1 is
\* over, the m-th batch result is the reply to the call made for the m-th
\* batch, and the batches are the summaries in order.
C8_OneResultPerInput ==
    variant \in {"get_top_topics", "get_top_topics_and_links"} =>
        /\ Len(summaries) <= Len(email_texts)
        /\ \A k \in 1..Len(summaries) :
              LET ins == InputsOf(email_texts[k])
                  o == CallsBefore(k)
              IN  /\ o + Len(ins) <= Len(calls)
                  /\ \A j \in 1..Len(ins) :
                        /\ calls[o + j].ok
                        /\ calls[o + j].prompt = generate_prompt(ins[j], INSTR_EMAIL)
                  /\ summaries[k] = ResultFor(k)
        /\ pc \in {"batch", "final", "done"} => Len(summaries) = Len(email_texts)
        /\ Len(batch_summaries) = Len(batches)
        /\ \A m \in 1..Len(batch_summaries) :
              LET c == calls[CallsBefore(Len(email_texts) + 1) + m]
              IN  /\ c.ok
                  /\ c.prompt = generate_prompt(JoinStrings(<<NL, NL>>, batches[m]), INSTR_BATCH)
                  /\ batch_summaries[m] = c.reply
        /\ pc \in {"final", "done"} => Flatten(batches) = summaries

C8_Witness ==
    /\ variant = "get_top_topics"
    /\ pc = "done"
    /\ Len(batch_summaries) = 2
    /\ Len(summaries) = 6
    /\ Oversized(email_texts[2])
    /\ ~Oversized(email_texts[1])

\* ------------------------------------------------------------ link heuristic
FirstHttp(r) ==
    IF \E i \in 1..Len(r) : r[i] = HTTP
    THEN CHOOSE i \in 1..Len(r) : r[i] = HTTP /\ \A j \in 1..(i - 1) : r[j] # HTTP
    ELSE 0

\* C9: a completion result is split at its first "http": the summary is the
\* stripped text before it and the links are the URL matches in the text from
\* there on, in order; without any "http" the summary is the whole result and
\* there is no link.
C9_SplitAtFirstHttp ==
    (fn = "separate_summary_and_links" /\ returned) =>
        LET r == arg.response
            k == FirstHttp(r)
        IN  IF k = 0
            THEN ret.summary = r /\ ret.links = <<>>
            ELSE /\ ret.summary = Strip(SubSeq(r, 1, k - 1))
                 /\ ret.links = extract_links(SubSeq(r, k, Len(r)))

C9_Witness ==
    /\ fn = "separate_summary_and_links" /\ returned
    /\ arg.response = <<"x", SP, HTTP, "://", "x", SP, "x">>
    /\ ret.summary = <<"x">>
    /\ ret.links = << <<HTTP, "://", "x">> >>

\* C10: the formatted output has one section per identified topic, in the
\* order of top_topics, each with the summary and the links taken from the
\* reply to that topic's own call.
C10_SectionPerTopic ==
    (variant = "get_summaries" /\ pc = "done") =>
        final_output =
            JoinStrings(<<NL>>,
                [k \in 1..Len(top_topics) |->
                    LET parts == SeparateSummaryAndLinks(calls[k + 1].reply)
                    IN  Section(top_topics[k], parts.summary, parts.links)])

\* ------------------------------------------------------------- no topics
\* The topic-identification call has returned, and what it returned holds
\* nothing but whitespace (no line with text on it).
BlankTopicReply ==
    /\ variant = "get_summaries"
    /\ calls # <<>>
    /\ calls[1].ok
    /\ \A i \in 1..Len(calls[1].reply) : IsSpace(calls[1].reply[i])

\* C11: when the reply to the topic-identification prompt has no line with
\* text on it, main() of get_summaries.py has returned as "no topics found":
\* it is not in its failure state, nothing is left to run, the identification
\* call is the only call of the run, and nothing was formatted or printed.
C11_NoTopicsEndsQuietly ==
    BlankTopicReply =>
        /\ pc = "no_topics"
        /\ ~ENABLED Next
        /\ top_topics = <<>>
        /\ Len(calls) = 1
        /\ topic_data = <<>>
        /\ NoSummaryOutput

C11_Witness ==
    /\ BlankTopicReply
    /\ pc = "no_topics"
    /\ Len(email_texts) = 2

\* ------------------------------------------------------ order of the calls
\* The texts stage 1 sends, record after record.
AllStage1Inputs == Flatten([k \in 1..Len(email_texts) |-> InputsOf(email_texts[k])])

\* The number of batches main() forms of one summary per record.
NumBatches == (Len(email_texts) + MAIN_BATCH_SIZE - 1) \div MAIN_BATCH_SIZE

\* C12: in the per-record-then-batch scripts the calls of a run are, in this
\* order: the per-record calls in record order, then the per-batch calls in
\* batch order (each on its batch of summaries joined by a blank line), then
\* the single rollup call on the batch results joined by a blank line; a call
\* is issued only after the one before it has returned, and a finished run
\* has made all of them, the rollup last.
C12_CallsInStageOrder ==
    (variant \in {"get_top_topics", "get_top_topics_and_links"} /\ pc # "main") =>
        LET n1 == Len(AllStage1Inputs)
            nb == NumBatches
        IN  /\ Len(calls) <= (IF email_texts = <<>> THEN 0 ELSE n1 + nb + 1)
            /\ \A k \in 1..(Len(calls) - 1) : calls[k].ok
            /\ \A k \in 1..Len(calls) :
                  IF k <= n1
                  THEN calls[k].prompt = generate_prompt(AllStage1Inputs[k], INSTR_EMAIL)
                  ELSE IF k <= n1 + nb
                  THEN /\ Len(summaries) = Len(email_texts)
                       /\ calls[k].prompt =
                             generate_prompt(
                                 JoinStrings(<<NL, NL>>,
                                     Slice(summaries, MAIN_BATCH_SIZE * (k - n1 - 1),
                                           MAIN_BATCH_SIZE * (k - n1))),
                                 INSTR_BATCH)
                  ELSE calls[k].prompt =
                          generate_prompt(
                              JoinStrings(<<NL, NL>>, [m \in 1..nb |-> calls[n1 + m].reply]),
                              INSTR_FINAL)
            /\ pc = "done" => (Len(calls) = n1 + nb + 1 /\ calls[Len(calls)].ok)

C12_Witness ==
    /\ variant = "get_top_topics_and_links"
    /\ pc = "done"
    /\ Len(email_texts) = 6
    /\ Len(calls) = 9

====
